---- MODULE Spec2Model ----
(***************************************************************************)
(* Invoice / purchase-order reconciliation (scripts/invoice_po_matcher.py) *)
(* and PDF auto-ingestion (scripts/pdf_watcher.py)                         *)
(*                                                                         *)
(* Python values are modelled as follows.                                  *)
(*   - a dict is a function with a set of strings as its domain; a key    *)
(*     the dict lacks is a key outside DOMAIN;                             *)
(*   - an optional value (the result of dict.get) is a sequence of length  *)
(*     at most one: None is << >> and a value v is << v >>;                *)
(*   - a monetary amount is an integer number of thousandths of the        *)
(*     currency unit, so 0.01 is 10 and 0.011 is 11; the tolerance test    *)
(*     follows the rounding of Python floats where it decides the outcome  *)
(*     (see ExceedsTolerance), and the variance find_all_mismatches adds   *)
(*     up carries the rounding of its float operations (see Float);        *)
(*   - a formatted message is the sequence of its parts.                   *)
(***************************************************************************)
EXTENDS Integers, Sequences, FiniteSets, TLC

VARIABLES
    invoice_file,     \* data_dir/invoices.json: None when the file is missing
    po_file,          \* data_dir/purchase_orders.json: None when missing
    matcher,          \* "none" | "constructed" | "failed" (the constructor raised)
    invoices,         \* InvoicePOMatcher.invoices
    purchase_orders,  \* InvoicePOMatcher.purchase_orders
    po_lookup,        \* InvoicePOMatcher.po_lookup
    results,          \* outcome of the latest find_all_mismatches call
    prev_results,     \* outcome of the find_all_mismatches call before it
    summary_text,     \* outcome of the latest get_mismatch_summary_text call
    arg_invoice,      \* argument of a direct compare_invoice_with_po call
    comparison,       \* outcome of that call
    load_outcome,     \* outcome of the latest load_data call
    filtered,         \* the latest filter helper call and its outcome
    documents,        \* PDFAutoIngestion.documents
    log_data,         \* PDFAutoIngestion.log.log_data
    saved_documents,  \* the JSON files of processed_dir
    saved_log,        \* the ingestion log file
    ingest_call,      \* the latest process_pdf call and its outcome
    succeeded         \* the file names a process_pdf call returned a result for

\* the state of the ingestion (scripts/pdf_watcher.py)
ingest_vars == << documents, log_data, saved_documents, saved_log, ingest_call,
                  succeeded >>

\* the state of the reconciliation (scripts/invoice_po_matcher.py)
matcher_vars == << invoice_file, po_file, matcher, invoices, purchase_orders,
                   po_lookup, results, prev_results, summary_text, arg_invoice,
                   comparison, load_outcome, filtered >>

vars == << invoice_file, po_file, matcher, invoices, purchase_orders, po_lookup,
           results, prev_results, summary_text, arg_invoice, comparison,
           load_outcome, filtered, documents, log_data, saved_documents,
           saved_log, ingest_call, succeeded >>

-----------------------------------------------------------------------------
(* Python helpers *)

None == << >>

Some(v) == << v >>

\* dict.get(k): None when the key is missing
Get(d, k) == IF k \in DOMAIN d THEN Some(d[k]) ELSE None

\* dict.get(k, default)
GetOr(d, k, default) == IF k \in DOMAIN d THEN d[k] ELSE default

Abs(x) == IF x < 0 THEN -x ELSE x

\* the dict d with d[k] = v
With(d, k, v) == [x \in DOMAIN d \cup {k} |-> IF x = k THEN v ELSE d[x]]

\* an outcome of a call: a returned value, or a raised exception
Returned(v) == [kind |-> "returned", value |-> v]

Raised(exc) == [kind |-> "raised", exc |-> exc]

NotCalled == [kind |-> "not_called"]

-----------------------------------------------------------------------------
(* PDF auto-ingestion (scripts/pdf_watcher.py): the state of a fresh start *)

\* lines 143-147: the collections with no file in processed_dir
EmptyDocuments == [purchase_orders |-> << >>, invoices |-> << >>, grns |-> << >>]

\* lines 58-62: the log with no log file; the timestamps (last_updated,
\* processed_at) are left out of the model
EmptyLog == [processed_files |-> << >>, total_processed |-> 0]

\* processed_dir without any of the four JSON files
NoSavedDocuments ==
    [purchase_orders |-> None, invoices |-> None, grns |-> None,
     all_documents |-> None]

\* no PDFAutoIngestion call has been made and processed_dir is empty
IngestIdle ==
    /\ documents = EmptyDocuments
    /\ log_data = EmptyLog
    /\ saved_documents = NoSavedDocuments
    /\ saved_log = None
    /\ ingest_call = NotCalled
    /\ succeeded = {}

-----------------------------------------------------------------------------
(* Python floats in the aggregation *)

\* A float that find_all_mismatches computes is the pair of the exact decimal
\* result, in thousandths, and its residue: the distance, in units of 2^-60,
\* from the double nearest to that decimal (the double json.load yields for
\* the literal). 2.5 is [thousandths |-> 2500, residue |-> 0] and
\* 2.4999999999999996 is [thousandths |-> 2500, residue |-> -512].
Float(thousandths, residue) == [thousandths |-> thousandths, residue |-> residue]

\* 0.0 (line 268 with line 287 adding to it)
FloatZero == Float(0, 0)

\* abs(a - b) on the doubles of the amounts a and b of this model, as
\* <<a, b, residue>>: abs(1.2 - 1.1) is 0.09999999999999987, which lies
\* 160 * 2^-60 below the double 0.1
AbsDiffResidue ==
    {<<1100, 1111, -116>>, <<1100, 2100, 0>>, <<1111, 1100, -116>>, <<1111, 2100, 128>>,
     <<1200, 1100, -160>>, <<3100, 1100, 0>>}

\* line 287: abs(invoice_total - po_total); equal doubles differ by 0.0
FloatAbsDiff(a, b) ==
    IF a = b THEN FloatZero
    ELSE Float(Abs(a - b),
               (CHOOSE t \in AbsDiffResidue : t[1] = a /\ t[2] = b)[3])

\* x + y on the doubles this model adds up, as <<x.thousandths, x.residue,
\* y.thousandths, y.residue, residue of the sum>>
SumResidue ==
    {<<11, -116, 11, -116, -232>>, <<11, -116, 989, 128, 0>>, <<11, -116, 1000, 0, 0>>,
     <<22, -232, 11, -116, -352>>, <<22, -232, 989, 128, 0>>, <<22, -232, 1000, 0, -256>>,
     <<100, -160, 100, -160, -320>>, <<100, -160, 2000, 0, -512>>, <<200, -320, 100, -160, -448>>,
     <<200, -320, 2000, 0, -512>>, <<300, -448, 100, -160, -640>>, <<300, -448, 2000, 0, 0>>,
     <<989, 128, 11, -116, 0>>, <<989, 128, 989, 128, 256>>, <<989, 128, 1000, 0, 0>>,
     <<1000, 0, 11, -116, 0>>, <<1000, 0, 989, 128, 0>>, <<1000, 0, 1000, 0, 0>>,
     <<1011, 0, 11, -116, -256>>, <<1011, 0, 989, 128, 0>>, <<1011, 0, 1000, 0, 0>>,
     <<1978, 256, 11, -116, 0>>, <<1978, 256, 989, 128, 512>>, <<1978, 256, 1000, 0, 0>>,
     <<1989, 0, 11, -116, 0>>, <<1989, 0, 989, 128, 0>>, <<1989, 0, 1000, 0, 0>>,
     <<2000, 0, 11, -116, 0>>, <<2000, 0, 100, -160, -512>>, <<2000, 0, 989, 128, 0>>,
     <<2000, 0, 1000, 0, 0>>, <<2000, 0, 2000, 0, 0>>, <<2100, -512, 100, -160, -1024>>,
     <<2100, -512, 2000, 0, 0>>, <<2200, -1024, 100, -160, -1024>>, <<2200, -1024, 2000, 0, -1024>>,
     <<2200, -512, 100, -160, 0>>, <<2200, -512, 2000, 0, -1024>>, <<4000, 0, 100, -160, 0>>,
     <<4000, 0, 2000, 0, 0>>, <<4100, 0, 100, -160, -1024>>, <<4100, 0, 2000, 0, 0>>,
     <<6000, 0, 100, -160, 0>>, <<6000, 0, 2000, 0, 0>>}

\* line 287: "+=" on floats; adding 0.0, or adding to 0.0, is exact
FloatAdd(x, y) ==
    IF y = FloatZero THEN x
    ELSE IF x = FloatZero THEN y
    ELSE Float(x.thousandths + y.thousandths,
               (CHOOSE t \in SumResidue :
                    /\ t[1] = x.thousandths /\ t[2] = x.residue
                    /\ t[3] = y.thousandths /\ t[4] = y.residue)[5])

\* line 396: x > amount, for a float x and the double of the decimal amount
FloatGreater(x, amount) ==
    \/ x.thousandths > amount
    \/ x.thousandths = amount /\ x.residue > 0

-----------------------------------------------------------------------------
(* compare_line_items *)

\* line 96 and line 105: the literal 0.01, in thousandths
LineTolerance == 10

\* line 197: tolerance = 0.01, in thousandths
Tolerance == 10

\* the pairs of amounts of this model that lie exactly 0.01 apart and whose
\* difference, subtracted as IEEE-754 doubles, comes out above the double 0.01:
\* abs(1.01 - 1.0), abs(1.11 - 1.1) and abs(1.021 - 1.011) are
\* 0.010000000000000009, while abs(0.01 - 0.0) is 0.01 and abs(0.11 - 0.1) is
\* 0.009999999999999995
RoundedAboveTolerance ==
    {<<1010, 1000>>, <<1000, 1010>>, <<1110, 1100>>, <<1100, 1110>>,
     <<1021, 1011>>, <<1011, 1021>>}

\* lines 96, 105, 200, 210 and 220: "abs(x - y) > 0.01" on Python floats; the
\* rounding of the subtraction decides amounts exactly 0.01 apart, and no
\* other amounts of this model
ExceedsTolerance(x, y, tol) ==
    IF Abs(x - y) = tol THEN <<x, y>> \in RoundedAboveTolerance
    ELSE Abs(x - y) > tol

\* line 69: {item['item_code']: item for item in po_items}; a later item with
\* the same code replaces an earlier one
ItemsLookup(po_items) ==
    [c \in {po_items[i].item_code : i \in DOMAIN po_items} |->
        po_items[CHOOSE i \in DOMAIN po_items :
                    /\ po_items[i].item_code = c
                    /\ \A j \in DOMAIN po_items :
                          po_items[j].item_code = c => j <= i]]

FieldIssue(field, inv_item, po_item) ==
    [field |-> field,
     invoice_value |-> inv_item[field],
     po_value |-> po_item[field],
     difference |-> inv_item[field] - po_item[field]]

\* lines 84-111: the issues of one invoice item against its PO item
ItemIssues(inv_item, po_item) ==
    (IF inv_item.quantity # po_item.quantity
        THEN << FieldIssue("quantity", inv_item, po_item) >> ELSE << >>)
    \o
    (IF ExceedsTolerance(inv_item.unit_price, po_item.unit_price, LineTolerance)
        THEN << FieldIssue("unit_price", inv_item, po_item) >> ELSE << >>)
    \o
    (IF ExceedsTolerance(inv_item.total, po_item.total, LineTolerance)
        THEN << FieldIssue("total", inv_item, po_item) >> ELSE << >>)

\* lines 72-121: one iteration of the loop over the invoice items; acc holds
\* mismatches and matched_items
InvoiceItemStep(acc, inv_item, po_items_lookup) ==
    LET item_code == inv_item.item_code IN
    IF item_code \notin DOMAIN po_items_lookup
    THEN [acc EXCEPT !.mismatches = Append(@,
            [type |-> "ITEM_NOT_IN_PO",
             item_code |-> item_code,
             description |-> inv_item.description,
             invoice_quantity |-> inv_item.quantity,
             issue |-> "Item in invoice but not in referenced PO"])]
    ELSE LET item_issues == ItemIssues(inv_item, po_items_lookup[item_code]) IN
         IF item_issues # << >>
         THEN [acc EXCEPT !.mismatches = Append(@,
                 [type |-> "ITEM_MISMATCH",
                  item_code |-> item_code,
                  description |-> inv_item.description,
                  issues |-> item_issues])]
         ELSE [acc EXCEPT !.matched_items = @ + 1]

RECURSIVE InvoiceItemsLoop(_, _, _, _)
\* lines 71-121: the loop over invoice_items, from index i on
InvoiceItemsLoop(acc, invoice_items, po_items_lookup, i) ==
    IF i > Len(invoice_items) THEN acc
    ELSE InvoiceItemsLoop(InvoiceItemStep(acc, invoice_items[i], po_items_lookup),
                          invoice_items, po_items_lookup, i + 1)

RECURSIVE PoItemsLoopOncePerCode(_, _, _, _)
\* the loop of lines 124-133 run over the distinct codes of the PO instead of
\* its items: a code the PO lists twice is reported once
PoItemsLoopOncePerCode(mismatches, po_items, invoice_item_codes, i) ==
    IF i > Len(po_items) THEN mismatches
    ELSE PoItemsLoopOncePerCode(
            IF /\ po_items[i].item_code \notin invoice_item_codes
               /\ \A j \in 1..(i - 1) : po_items[j].item_code # po_items[i].item_code
            THEN Append(mismatches,
                    [type |-> "ITEM_NOT_IN_INVOICE",
                     item_code |-> po_items[i].item_code,
                     description |-> po_items[i].description,
                     po_quantity |-> po_items[i].quantity,
                     issue |-> "Item in PO but not invoiced"])
            ELSE mismatches,
            po_items, invoice_item_codes, i + 1)

RECURSIVE PoItemsLoopPrepending(_, _, _, _)
\* the loop of lines 124-133 putting each entry in front of the list instead
\* of behind it
PoItemsLoopPrepending(mismatches, po_items, invoice_item_codes, i) ==
    IF i > Len(po_items) THEN mismatches
    ELSE PoItemsLoopPrepending(
            IF po_items[i].item_code \notin invoice_item_codes
            THEN << [type |-> "ITEM_NOT_IN_INVOICE",
                     item_code |-> po_items[i].item_code,
                     description |-> po_items[i].description,
                     po_quantity |-> po_items[i].quantity,
                     issue |-> "Item in PO but not invoiced"] >> \o mismatches
            ELSE mismatches,
            po_items, invoice_item_codes, i + 1)

RECURSIVE PoItemsLoop(_, _, _, _)
\* lines 124-133: PO items whose code no invoice item has
PoItemsLoop(mismatches, po_items, invoice_item_codes, i) ==
    IF i > Len(po_items) THEN mismatches
    ELSE PoItemsLoop(
            IF po_items[i].item_code \notin invoice_item_codes
            THEN Append(mismatches,
                    [type |-> "ITEM_NOT_IN_INVOICE",
                     item_code |-> po_items[i].item_code,
                     description |-> po_items[i].description,
                     po_quantity |-> po_items[i].quantity,
                     issue |-> "Item in PO but not invoiced"])
            ELSE mismatches,
            po_items, invoice_item_codes, i + 1)

\* compare_line_items raising has_line_item_issues for the entries of the
\* invoice items only
CompareLineItemsFlagFromInvoice(invoice_items, po_items) ==
    LET after_invoice == InvoiceItemsLoop([mismatches |-> << >>, matched_items |-> 0],
                                          invoice_items, ItemsLookup(po_items), 1)
        invoice_item_codes == {invoice_items[i].item_code : i \in DOMAIN invoice_items}
        mismatches == PoItemsLoop(after_invoice.mismatches, po_items,
                                  invoice_item_codes, 1)
    IN [total_items_in_invoice |-> Len(invoice_items),
        total_items_in_po |-> Len(po_items),
        matched_items |-> after_invoice.matched_items,
        mismatches |-> mismatches,
        has_line_item_issues |-> Len(after_invoice.mismatches) > 0]

CompareLineItems(invoice_items, po_items) ==
    LET after_invoice == InvoiceItemsLoop([mismatches |-> << >>, matched_items |-> 0],
                                          invoice_items, ItemsLookup(po_items), 1)
        invoice_item_codes == {invoice_items[i].item_code : i \in DOMAIN invoice_items}
        mismatches == PoItemsLoop(after_invoice.mismatches, po_items,
                                  invoice_item_codes, 1)
    IN [total_items_in_invoice |-> Len(invoice_items),
        total_items_in_po |-> Len(po_items),
        matched_items |-> after_invoice.matched_items,
        mismatches |-> mismatches,
        has_line_item_issues |-> Len(mismatches) > 0]

-----------------------------------------------------------------------------
(* compare_invoice_with_po *)

\* line 151: "not po_reference" (None or the empty string)
NoReference(po_reference) == po_reference = None \/ po_reference = Some("")

\* line 158: self.po_lookup.get(po_reference)
LookupPO(lookup, po_reference) == Get(lookup, po_reference[1])

PoMissingOrWithoutItems(po) ==
    po = None \/ GetOr(po[1], "line_items", << >>) = << >>

\* line 159: "not po"; a loaded PO is a dict with a po_number key, never falsy
PoMissing(po) == po = None

\* lines 171-194: vendor_name, vendor_id and currency
StringIssue(invoice, po, field) ==
    IF Get(invoice, field) # Get(po, field)
    THEN << [field |-> field,
             invoice_value |-> Get(invoice, field),
             po_value |-> Get(po, field),
             severity |-> "HIGH"] >>
    ELSE << >>

AmountIssueWhenBothPresent(invoice, po, field, severity) ==
    IF /\ field \in DOMAIN invoice
       /\ field \in DOMAIN po
       /\ ExceedsTolerance(invoice[field], po[field], Tolerance)
    THEN << [field |-> field,
             invoice_value |-> Get(invoice, field),
             po_value |-> Get(po, field),
             difference |-> invoice[field] - po[field],
             severity |-> severity] >>
    ELSE << >>

\* lines 199-227: subtotal, tax and total_amount
AmountIssue(invoice, po, field, severity) ==
    IF ExceedsTolerance(GetOr(invoice, field, 0), GetOr(po, field, 0), Tolerance)
    THEN << [field |-> field,
             invoice_value |-> Get(invoice, field),
             po_value |-> Get(po, field),
             difference |-> GetOr(invoice, field, 0) - GetOr(po, field, 0),
             severity |-> severity] >>
    ELSE << >>

\* lines 168-227
HeaderIssues(invoice, po) ==
    StringIssue(invoice, po, "vendor_name")
    \o StringIssue(invoice, po, "vendor_id")
    \o StringIssue(invoice, po, "currency")
    \o AmountIssue(invoice, po, "subtotal", "HIGH")
    \o AmountIssue(invoice, po, "tax", "MEDIUM")
    \o AmountIssue(invoice, po, "total_amount", "HIGH")

DetermineStatusBoth(issues, line_item_comparison) ==
    IF Len(issues) > 0 /\ line_item_comparison.has_line_item_issues
    THEN "MISMATCH" ELSE "MATCH"

\* lines 236-237
DetermineStatus(issues, line_item_comparison) ==
    IF Len(issues) > 0 \/ line_item_comparison.has_line_item_issues
    THEN "MISMATCH" ELSE "MATCH"

RECURSIVE CountFieldIssues(_, _)
CountFieldIssues(mismatches, i) ==
    IF i > Len(mismatches) THEN 0
    ELSE (IF mismatches[i].type = "ITEM_MISMATCH"
          THEN Len(mismatches[i].issues) ELSE 1)
         + CountFieldIssues(mismatches, i + 1)

TotalIssuesPerField(issues, line_item_comparison) ==
    Len(issues) + CountFieldIssues(line_item_comparison.mismatches, 1)

\* line 250
TotalIssues(issues, line_item_comparison) ==
    Len(issues) + Len(line_item_comparison.mismatches)

\* lines 152-156
NoReferenceResult(invoice) ==
    [invoice_number |-> invoice.invoice_number,
     status |-> "ERROR",
     error |-> << "Invoice has no PO reference" >>]

NotFoundResultUnnamed(invoice, po_reference) ==
    [invoice_number |-> invoice.invoice_number,
     po_reference |-> po_reference,
     status |-> "ERROR",
     error |-> << "Referenced PO not found" >>]

\* lines 160-165; the message is f'Referenced PO {po_reference} not found'
NotFoundResult(invoice, po_reference) ==
    [invoice_number |-> invoice.invoice_number,
     po_reference |-> po_reference,
     status |-> "ERROR",
     error |-> << "Referenced PO ", po_reference, " not found" >>]

\* lines 143-251, with the PO index as a parameter
CompareInvoiceWithPo(lookup, invoice) ==
    LET po_reference == Get(invoice, "po_reference")
        found == LookupPO(lookup, po_reference)
        po == found[1]
        issues == HeaderIssues(invoice, po)
        line_item_comparison ==
            CompareLineItems(GetOr(invoice, "line_items", << >>),
                             GetOr(po, "line_items", << >>))
    IN  IF NoReference(po_reference)
        THEN NoReferenceResult(invoice)
        ELSE IF PoMissing(found)
        THEN NotFoundResult(invoice, po_reference[1])
        ELSE [invoice_number |-> invoice.invoice_number,
              invoice_date |-> Get(invoice, "invoice_date"),
              po_reference |-> po_reference[1],
              po_date |-> Get(po, "po_date"),
              vendor_name |-> Get(invoice, "vendor_name"),
              invoice_total |-> Get(invoice, "total_amount"),
              po_total |-> Get(po, "total_amount"),
              status |-> DetermineStatus(issues, line_item_comparison),
              header_issues |-> issues,
              line_item_comparison |-> line_item_comparison,
              total_issues |-> TotalIssues(issues, line_item_comparison)]

-----------------------------------------------------------------------------
(* load_data *)

\* the index of lines 53-54 keeping the first purchase order of a number
BuildLookupFirstWins(pos) ==
    [n \in {pos[i].po_number : i \in DOMAIN pos} |->
        pos[CHOOSE i \in DOMAIN pos :
               /\ pos[i].po_number = n
               /\ \A j \in DOMAIN pos : pos[j].po_number = n => i <= j]]

\* line 54: {po['po_number']: po for po in self.purchase_orders}; a later PO
\* with the same number replaces an earlier one
BuildLookup(pos) ==
    [n \in {pos[i].po_number : i \in DOMAIN pos} |->
        pos[CHOOSE i \in DOMAIN pos :
               /\ pos[i].po_number = n
               /\ \A j \in DOMAIN pos : pos[j].po_number = n => j <= i]]

LoadDataOnLenient(m) ==
    IF invoice_file = None
    THEN [state |-> m, outcome |-> Raised("FileNotFoundError")]
    ELSE [state |-> [invoices |-> invoice_file[1],
                     purchase_orders |-> IF po_file = None THEN << >> ELSE po_file[1],
                     po_lookup |-> IF po_file = None THEN << >>
                                   ELSE BuildLookup(po_file[1])],
          outcome |-> Returned(None)]

\* lines 34-56 on a matcher m = [invoices, purchase_orders, po_lookup];
\* self.invoices is assigned before the purchase-orders file is looked at
LoadDataOn(m) ==
    IF invoice_file = None
    THEN [state |-> m, outcome |-> Raised("FileNotFoundError")]
    ELSE IF po_file = None
    THEN [state |-> [m EXCEPT !.invoices = invoice_file[1]],
          outcome |-> Raised("FileNotFoundError")]
    ELSE [state |-> [invoices |-> invoice_file[1],
                     purchase_orders |-> po_file[1],
                     po_lookup |-> BuildLookup(po_file[1])],
          outcome |-> Returned(None)]

-----------------------------------------------------------------------------
(* find_all_mismatches *)

CarriedResults ==
    IF results.kind = "returned" THEN results.value
    ELSE [total_invoices |-> Len(invoices),
          matched |-> << >>, mismatched |-> << >>, errors |-> << >>,
          summary |-> [total_matched |-> 0, total_mismatched |-> 0,
                       total_errors |-> 0, total_amount_variance |-> FloatZero,
                       high_severity_issues |-> 0, medium_severity_issues |-> 0]]

\* lines 260-273: the report every call starts from
FreshResults ==
    [total_invoices |-> Len(invoices),
     matched |-> << >>, mismatched |-> << >>, errors |-> << >>,
     summary |-> [total_matched |-> 0, total_mismatched |-> 0,
                  total_errors |-> 0, total_amount_variance |-> FloatZero,
                  high_severity_issues |-> 0, medium_severity_issues |-> 0]]

\* line 287: abs(comparison['invoice_total'] - comparison['po_total'])
Variance(c) == FloatAbsDiff(c.invoice_total[1], c.po_total[1])

RECURSIVE CountSeverityAny(_, _, _)
\* the count of lines 291-295 taking every header issue, whatever its severity
CountSeverityAny(issues, severity, i) ==
    IF i > Len(issues) THEN 0
    ELSE 1 + CountSeverityAny(issues, severity, i + 1)

RECURSIVE CountSeverity(_, _, _)
\* lines 291-295: the header issues of the given severity
CountSeverity(issues, severity, i) ==
    IF i > Len(issues) THEN 0
    ELSE (IF Get(issues[i], "severity") = Some(severity) THEN 1 ELSE 0)
         + CountSeverity(issues, severity, i + 1)

\* lines 279-280 without the counter
AddMatchedUncounted(res, c) ==
    [res EXCEPT !.matched = Append(@, c)]

AddMatchedFirst(res, c) ==
    [res EXCEPT !.matched = << c >> \o @, !.summary.total_matched = @ + 1]

\* lines 279-280
AddMatched(res, c) ==
    [res EXCEPT !.matched = Append(@, c), !.summary.total_matched = @ + 1]

AddMismatchedWithoutVariance(res, c) ==
    IF /\ "invoice_total" \in DOMAIN c
       /\ "po_total" \in DOMAIN c
       /\ (c.invoice_total = None \/ c.po_total = None)
    THEN Raised("TypeError")
    ELSE Returned(
        [res EXCEPT
            !.mismatched = Append(@, c),
            !.summary.total_mismatched = @ + 1,
            !.summary.high_severity_issues =
                @ + CountSeverity(GetOr(c, "header_issues", << >>), "HIGH", 1),
            !.summary.medium_severity_issues =
                @ + CountSeverity(GetOr(c, "header_issues", << >>), "MEDIUM", 1)])

\* lines 282-295; subtracting with None raises TypeError
AddMismatched(res, c) ==
    IF /\ "invoice_total" \in DOMAIN c
       /\ "po_total" \in DOMAIN c
       /\ (c.invoice_total = None \/ c.po_total = None)
    THEN Raised("TypeError")
    ELSE Returned(
        [res EXCEPT
            !.mismatched = Append(@, c),
            !.summary.total_mismatched = @ + 1,
            !.summary.total_amount_variance =
                IF "invoice_total" \in DOMAIN c /\ "po_total" \in DOMAIN c
                THEN FloatAdd(@, Variance(c)) ELSE @,
            !.summary.high_severity_issues =
                @ + CountSeverity(GetOr(c, "header_issues", << >>), "HIGH", 1),
            !.summary.medium_severity_issues =
                @ + CountSeverity(GetOr(c, "header_issues", << >>), "MEDIUM", 1)])

AddErrorCountedOnly(res, c) ==
    [res EXCEPT !.summary.total_errors = @ + 1]

\* lines 297-298
AddError(res, c) ==
    [res EXCEPT !.errors = Append(@, c), !.summary.total_errors = @ + 1]

\* lines 276-298: one iteration of the loop over self.invoices
Classify(lookup, res, invoice) ==
    LET c == CompareInvoiceWithPo(lookup, invoice) IN
    IF c.status = "MATCH" THEN Returned(AddMatched(res, c))
    ELSE IF c.status = "MISMATCH" THEN AddMismatched(res, c)
    ELSE Returned(AddError(res, c))

RECURSIVE Aggregate(_, _, _, _)
\* lines 275-300: the loop from index i on; an exception ends it
Aggregate(lookup, invs, out, i) ==
    IF out.kind = "raised" \/ i > Len(invs) THEN out
    ELSE Aggregate(lookup, invs, Classify(lookup, out.value, invs[i]), i + 1)

\* lines 253-300 on the loaded matcher
FindAllMismatchesOutcome ==
    Aggregate(po_lookup, invoices, Returned(FreshResults), 1)

-----------------------------------------------------------------------------
(* get_mismatch_summary_text *)

\* "{n/total*100:.1f}" as a number of tenths of a percent, rounded to the
\* nearest tenth (no exact tie arises for fewer than 16 invoices)
PercentTenths(n, total) == (2000 * n + total) \div (2 * total)

\* lines 341-351: ":,.2f" applied to None raises TypeError
HeaderIssueFormats(issue) ==
    "difference" \in DOMAIN issue
        => issue.invoice_value # None /\ issue.po_value # None

\* lines 334-370: whether the block of one mismatched invoice can be formatted
BlockFormats(m) ==
    /\ m.invoice_total # None
    /\ m.po_total # None
    /\ \A k \in DOMAIN m.header_issues : HeaderIssueFormats(m.header_issues[k])

\* lines 333-370: what the block of one mismatched invoice shows
Block(m, idx) ==
    [idx |-> idx,
     invoice_number |-> m.invoice_number,
     po_reference |-> m.po_reference,
     vendor_name |-> m.vendor_name,
     invoice_total |-> m.invoice_total,
     po_total |-> m.po_total,
     total_issues |-> m.total_issues,
     header_issues |-> m.header_issues,
     line_item_issues |-> m.line_item_comparison.mismatches]

\* lines 302-380
SummaryTextOf(out) ==
    IF out.kind = "raised" THEN out
    ELSE LET r == out.value IN
    IF r.total_invoices = 0 THEN Raised("ZeroDivisionError")
    ELSE IF \E k \in DOMAIN r.mismatched : ~BlockFormats(r.mismatched[k])
    THEN Raised("TypeError")
    ELSE Returned(
        [total_invoices |-> r.total_invoices,
         total_matched |-> r.summary.total_matched,
         matched_percent |-> PercentTenths(r.summary.total_matched, r.total_invoices),
         total_mismatched |-> r.summary.total_mismatched,
         mismatched_percent |->
             PercentTenths(r.summary.total_mismatched, r.total_invoices),
         total_errors |-> r.summary.total_errors,
         total_amount_variance |-> r.summary.total_amount_variance,
         high_severity_issues |-> r.summary.high_severity_issues,
         medium_severity_issues |-> r.summary.medium_severity_issues,
         mismatched |-> [k \in DOMAIN r.mismatched |-> Block(r.mismatched[k], k)],
         errors |-> [k \in DOMAIN r.errors |->
                        [invoice_number |-> r.errors[k].invoice_number,
                         error |-> r.errors[k].error]]])

-----------------------------------------------------------------------------
(* get_mismatches_for_vendor, get_mismatches_above_amount *)

\* str.lower() on the vendor names of this model
LowerCase ==
    [name \in {"Acme", "ACME", "acme", "Beta"} |->
        CASE name = "Acme" -> "acme"
          [] name = "ACME" -> "acme"
          [] name = "acme" -> "acme"
          [] name = "Beta" -> "beta"]

\* line 387: m['vendor_name'].lower() == vendor_name.lower()
SameVendor(m, vendor_name) == LowerCase[m.vendor_name[1]] = LowerCase[vendor_name]

\* lines 385-388: the list comprehension over all_results['mismatched']
VendorMismatches(mismatched, vendor_name) ==
    LET Keep(m) == SameVendor(m, vendor_name)
    IN  SelectSeq(mismatched, Keep)

\* lines 382-389; find_all_mismatches may raise, and None has no lower()
GetMismatchesForVendorOutcome(vendor_name) ==
    LET all_results == FindAllMismatchesOutcome IN
    IF all_results.kind = "raised" THEN all_results
    ELSE IF \E k \in DOMAIN all_results.value.mismatched :
                all_results.value.mismatched[k].vendor_name = None
    THEN Raised("AttributeError")
    ELSE Returned(VendorMismatches(all_results.value.mismatched, vendor_name))

\* line 396: abs(m['invoice_total'] - m['po_total']) > amount
AboveAmount(m, amount) ==
    FloatGreater(FloatAbsDiff(m.invoice_total[1], m.po_total[1]), amount)

\* lines 394-397: the list comprehension over all_results['mismatched']
HighVarianceMismatches(mismatched, amount) ==
    LET Keep(m) == AboveAmount(m, amount)
    IN  SelectSeq(mismatched, Keep)

\* lines 391-398
GetMismatchesAboveAmountOutcome(amount) ==
    LET all_results == FindAllMismatchesOutcome IN
    IF all_results.kind = "raised" THEN all_results
    ELSE Returned(HighVarianceMismatches(all_results.value.mismatched, amount))

-----------------------------------------------------------------------------
(* Bounded inputs *)

\* longest line-item list of a document
MaxItems == 2

SeqsUpTo(S, n) == UNION {[1..k -> S] : k \in 0..n}

Item(code, quantity, unit_price, total) ==
    [item_code |-> code,
     description |-> IF code = "A" THEN "Widget" ELSE "Gadget",
     quantity |-> quantity, unit_price |-> unit_price, total |-> total]

ItemCodes == {"A", "B"}

\* invoice line items: the PO's values, and values 0.01 and 0.011 away
InvoiceItems ==
    {Item(c, t[1], t[2], t[3]) :
        c \in ItemCodes,
        t \in {<<1, 1000, 1000>>, <<2, 1000, 1000>>, <<1, 1010, 1000>>,
               <<1, 1011, 1011>>, <<1, 1000, 1010>>}}

PoItems ==
    {Item(c, t[1], t[2], t[3]) :
        c \in ItemCodes,
        t \in {<<1, 1000, 1000>>, <<2, 1000, 1000>>, <<1, 1011, 1021>>}}

BasePO(po_number) ==
    [po_number |-> po_number, po_date |-> "2024-01-02",
     vendor_name |-> "Acme", vendor_id |-> "V1", currency |-> "USD",
     subtotal |-> 1000, tax |-> 100, total_amount |-> 1100,
     line_items |-> << Item("A", 1, 1000, 1000) >>]

BaseInvoice(invoice_number) ==
    [invoice_number |-> invoice_number, invoice_date |-> "2024-01-15",
     po_reference |-> "PO1",
     vendor_name |-> "Acme", vendor_id |-> "V1", currency |-> "USD",
     subtotal |-> 1000, tax |-> 100, total_amount |-> 1100,
     line_items |-> << Item("A", 1, 1000, 1000) >>]

\* d with each key of the function f set to f[k][1], or removed when f[k] is None
Override(d, f) ==
    [x \in (DOMAIN d \cup {k \in DOMAIN f : f[k] # None})
             \ {k \in DOMAIN f : f[k] = None}
        |-> IF x \in DOMAIN f THEN f[x][1] ELSE d[x]]

\* header-focused inputs of compare_invoice_with_po: every header field varies
HeaderInvoices ==
    {Override(BaseInvoice(1),
        [po_reference |-> r, vendor_name |-> vn, vendor_id |-> vi, currency |-> cu,
         subtotal |-> su, tax |-> tx, total_amount |-> to, line_items |-> li]) :
        r \in {None, Some(""), Some("PO1"), Some("PO9")},
        vn \in {None, Some("Acme"), Some("ACME")},
        vi \in {Some("V1"), Some("V2")},
        cu \in {Some("USD"), Some("EUR")},
        su \in {None, Some(1000), Some(1010), Some(1011)},
        tx \in {None, Some(100), Some(110), Some(89)},
        to \in {None, Some(1100), Some(1110), Some(1111)},
        li \in {None, Some(<< Item("A", 1, 1000, 1000) >>),
                Some(<< Item("A", 1, 1011, 1011) >>)}}

HeaderPOFiles ==
    {<< >>,
     << BasePO("PO1") >>,
     << Override(BasePO("PO1"),
          [vendor_id |-> None, subtotal |-> None, tax |-> None,
           total_amount |-> None]) >>,
     << Override(BasePO("PO1"),
          [subtotal |-> Some(10), tax |-> Some(11), total_amount |-> Some(0),
           line_items |-> None]) >>}

\* line-item-focused inputs: equal headers, every list of line items
LineInvoices ==
    {With(BaseInvoice(1), "line_items", li) :
        li \in SeqsUpTo(InvoiceItems, MaxItems)}

LinePOFiles ==
    {<< With(BasePO("PO1"), "line_items", li) >> : li \in SeqsUpTo(PoItems, MaxItems)}

-----------------------------------------------------------------------------
(* A direct call of compare_invoice_with_po on a loaded matcher *)

InitCompare ==
    /\ \E pos \in HeaderPOFiles \cup LinePOFiles :
          /\ po_file = Some(pos)
          /\ purchase_orders = pos
          /\ po_lookup = BuildLookup(pos)
          /\ arg_invoice \in (IF pos \in HeaderPOFiles THEN HeaderInvoices ELSE {})
                             \cup (IF pos \in LinePOFiles THEN LineInvoices ELSE {})
    /\ invoice_file = Some(<< >>)
    /\ invoices = << >>
    /\ matcher = "constructed"
    /\ results = NotCalled
    /\ prev_results = NotCalled
    /\ summary_text = NotCalled
    /\ comparison = NotCalled
    /\ load_outcome = Returned(None)
    /\ filtered = NotCalled
    /\ IngestIdle

\* lines 143-251
CompareInvoice ==
    /\ comparison = NotCalled
    /\ comparison' = Returned(CompareInvoiceWithPo(po_lookup, arg_invoice))
    /\ UNCHANGED << invoice_file, po_file, matcher, invoices, purchase_orders,
                    po_lookup, results, prev_results, summary_text, arg_invoice,
                    load_outcome, filtered,
                    ingest_vars >>

NextCompare == CompareInvoice

SpecCompare == InitCompare /\ [][NextCompare]_vars

-----------------------------------------------------------------------------
(* The matcher: construction, reloading, reports *)

\* most invoices in invoices.json
MaxInvoices == 2

\* most purchase orders in purchase_orders.json
MaxPOs == 2

\* the invoice numbered n, in each of the shapes a report distinguishes
InvoiceShapes(n) ==
    {Override(BaseInvoice(n), f) : f \in {
        [po_reference |-> Some("PO1")],
        [po_reference |-> Some("PO2")],
        [po_reference |-> Some("PO9"), total_amount |-> Some(9999)],
        [po_reference |-> None],
        [po_reference |-> Some("")],
        [subtotal |-> Some(1011), total_amount |-> Some(1111)],
        [tax |-> Some(120)],
        [total_amount |-> None],
        [subtotal |-> None],
        [vendor_name |-> Some("ACME")],
        [line_items |-> Some(<< Item("A", 1, 1000, 1000), Item("B", 1, 1000, 1000) >>)]}}

PurchaseOrderShapes ==
    {BasePO("PO1"),
     Override(BasePO("PO1"), [subtotal |-> Some(1011), total_amount |-> Some(1111)]),
     Override(BasePO("PO2"), [subtotal |-> Some(2000), total_amount |-> Some(2100)])}

\* invoices.json: invoice numbers are unique (the i-th invoice is numbered i)
InvoiceFiles ==
    UNION {{f \in [1..k -> UNION {InvoiceShapes(n) : n \in 1..k}] :
                \A i \in 1..k : f[i].invoice_number = i} : k \in 0..MaxInvoices}

PurchaseOrderFiles == SeqsUpTo(PurchaseOrderShapes, MaxPOs)

NoInvoice == [invoice_number |-> 0]

Init ==
    /\ invoice_file \in {None} \cup {Some(f) : f \in InvoiceFiles}
    /\ po_file \in {None} \cup {Some(f) : f \in PurchaseOrderFiles}
    /\ matcher = "none"
    /\ invoices = << >>
    /\ purchase_orders = << >>
    /\ po_lookup = << >>
    /\ results = NotCalled
    /\ prev_results = NotCalled
    /\ summary_text = NotCalled
    /\ arg_invoice = NoInvoice
    /\ comparison = NotCalled
    /\ load_outcome = NotCalled
    /\ filtered = NotCalled
    /\ IngestIdle

\* lines 20-32: InvoicePOMatcher(data_dir); no object exists when load_data raises
Construct ==
    /\ matcher = "none"
    /\ LET loaded == LoadDataOn([invoices |-> << >>, purchase_orders |-> << >>,
                                 po_lookup |-> << >>])
       IN /\ matcher' = IF loaded.outcome.kind = "returned"
                        THEN "constructed" ELSE "failed"
          /\ invoices' = loaded.state.invoices
          /\ purchase_orders' = loaded.state.purchase_orders
          /\ po_lookup' = loaded.state.po_lookup
          /\ load_outcome' = loaded.outcome
    /\ UNCHANGED << invoice_file, po_file, results, prev_results, summary_text,
                    arg_invoice, comparison, filtered,
                    ingest_vars >>

\* lines 34-56: load_data called again on the matcher; the reports computed
\* from the data loaded before are no longer tracked
LoadData ==
    /\ matcher = "constructed"
    /\ LET loaded == LoadDataOn([invoices |-> invoices,
                                 purchase_orders |-> purchase_orders,
                                 po_lookup |-> po_lookup])
       IN /\ invoices' = loaded.state.invoices
          /\ purchase_orders' = loaded.state.purchase_orders
          /\ po_lookup' = loaded.state.po_lookup
          /\ load_outcome' = loaded.outcome
    /\ results' = NotCalled
    /\ prev_results' = NotCalled
    /\ summary_text' = NotCalled
    /\ filtered' = NotCalled
    /\ UNCHANGED << invoice_file, po_file, matcher, arg_invoice, comparison,
                    ingest_vars >>

FindAllMismatchesConsuming ==
    /\ matcher = "constructed"
    /\ results' = FindAllMismatchesOutcome
    /\ prev_results' = results
    /\ invoices' = << >>
    /\ UNCHANGED << invoice_file, po_file, matcher, purchase_orders,
                    po_lookup, summary_text, arg_invoice, comparison,
                    load_outcome, filtered,
                    ingest_vars >>

\* lines 253-300
FindAllMismatches ==
    /\ matcher = "constructed"
    /\ results' = FindAllMismatchesOutcome
    /\ prev_results' = results
    /\ UNCHANGED << invoice_file, po_file, matcher, invoices, purchase_orders,
                    po_lookup, summary_text, arg_invoice, comparison,
                    load_outcome, filtered,
                    ingest_vars >>

\* lines 302-380; the report it computes is local to the call
GetMismatchSummaryText ==
    /\ matcher = "constructed"
    /\ summary_text' = SummaryTextOf(FindAllMismatchesOutcome)
    /\ UNCHANGED << invoice_file, po_file, matcher, invoices, purchase_orders,
                    po_lookup, results, prev_results, arg_invoice, comparison,
                    load_outcome, filtered,
                    ingest_vars >>

Next ==
    \/ Construct
    \/ LoadData
    \/ FindAllMismatches
    \/ GetMismatchSummaryText

Spec == Init /\ [][Next]_vars

-----------------------------------------------------------------------------
(* The matcher while the files of data_dir change between load_data calls *)

\* contents invoices.json takes over time
ReloadInvoiceFiles ==
    {<< >>,
     << BaseInvoice(1) >>,
     << Override(BaseInvoice(1), [po_reference |-> Some("PO2")]) >>,
     << BaseInvoice(1), Override(BaseInvoice(2), [po_reference |-> Some("PO2")]) >>}

\* contents purchase_orders.json takes over time
ReloadPurchaseOrderFiles ==
    {<< BasePO("PO1") >>,
     << Override(BasePO("PO2"), [subtotal |-> Some(2000), total_amount |-> Some(2100)]) >>,
     << BasePO("PO1"), BasePO("PO2") >>}

InitReload ==
    /\ invoice_file \in {None} \cup {Some(f) : f \in ReloadInvoiceFiles}
    /\ po_file \in {None} \cup {Some(f) : f \in ReloadPurchaseOrderFiles}
    /\ matcher = "none"
    /\ invoices = << >>
    /\ purchase_orders = << >>
    /\ po_lookup = << >>
    /\ results = NotCalled
    /\ prev_results = NotCalled
    /\ summary_text = NotCalled
    /\ arg_invoice = NoInvoice
    /\ comparison = NotCalled
    /\ load_outcome = NotCalled
    /\ filtered = NotCalled
    /\ IngestIdle

\* invoices.json is written anew (save_to_json, or any other writer)
WriteInvoiceFile ==
    /\ \E f \in ReloadInvoiceFiles :
          /\ invoice_file # Some(f)
          /\ invoice_file' = Some(f)
    /\ UNCHANGED << po_file, matcher, invoices, purchase_orders, po_lookup,
                    results, prev_results, summary_text, arg_invoice, comparison,
                    load_outcome, filtered,
                    ingest_vars >>

\* purchase_orders.json is written anew
WritePoFile ==
    /\ \E f \in ReloadPurchaseOrderFiles :
          /\ po_file # Some(f)
          /\ po_file' = Some(f)
    /\ UNCHANGED << invoice_file, matcher, invoices, purchase_orders, po_lookup,
                    results, prev_results, summary_text, arg_invoice, comparison,
                    load_outcome, filtered,
                    ingest_vars >>

\* invoices.json goes missing: invoice_file.exists() turns false
RemoveInvoiceFile ==
    /\ invoice_file # None
    /\ invoice_file' = None
    /\ UNCHANGED << po_file, matcher, invoices, purchase_orders, po_lookup,
                    results, prev_results, summary_text, arg_invoice, comparison,
                    load_outcome, filtered,
                    ingest_vars >>

\* purchase_orders.json goes missing: po_file.exists() turns false
RemovePoFile ==
    /\ po_file # None
    /\ po_file' = None
    /\ UNCHANGED << invoice_file, matcher, invoices, purchase_orders, po_lookup,
                    results, prev_results, summary_text, arg_invoice, comparison,
                    load_outcome, filtered,
                    ingest_vars >>

NextReload ==
    \/ Construct
    \/ LoadData
    \/ FindAllMismatches
    \/ WriteInvoiceFile
    \/ WritePoFile
    \/ RemoveInvoiceFile
    \/ RemovePoFile

SpecReload == InitReload /\ [][NextReload]_vars

-----------------------------------------------------------------------------
(* The queries of a loaded matcher *)

\* most invoices of a queried matcher
MaxQueryInvoices == 3

\* the invoice numbered n: matching; unresolved; off by 0.10; off by 2.00
\* under another spelling of the vendor; without vendor_name
QueryInvoiceShapes(n) ==
    {Override(BaseInvoice(n), f) : f \in {
        [po_reference |-> Some("PO1")],
        [po_reference |-> Some("PO9")],
        [total_amount |-> Some(1200)],
        [total_amount |-> Some(3100), vendor_name |-> Some("ACME")],
        [vendor_name |-> None]}}

QueryInvoiceFiles ==
    UNION {{f \in [1..k -> UNION {QueryInvoiceShapes(n) : n \in 1..k}] :
                \A i \in 1..k : f[i].invoice_number = i} : k \in 0..MaxQueryInvoices}

\* arguments of get_mismatches_for_vendor
VendorArgs == {"acme", "Beta"}

\* arguments of get_mismatches_above_amount: 0.10 and 2.00
AmountArgs == {100, 2000}

InitQueries ==
    /\ invoice_file \in {Some(f) : f \in QueryInvoiceFiles}
    /\ po_file = Some(<< BasePO("PO1") >>)
    /\ matcher = "constructed"
    /\ invoices = invoice_file[1]
    /\ purchase_orders = po_file[1]
    /\ po_lookup = BuildLookup(po_file[1])
    /\ results = NotCalled
    /\ prev_results = NotCalled
    /\ summary_text = NotCalled
    /\ arg_invoice = NoInvoice
    /\ comparison = NotCalled
    /\ load_outcome = Returned(None)
    /\ filtered = NotCalled
    /\ IngestIdle

\* lines 143-251, called on one of the loaded invoices
CompareLoadedInvoice ==
    /\ matcher = "constructed"
    /\ \E i \in DOMAIN invoices :
          /\ arg_invoice' = invoices[i]
          /\ comparison' = Returned(CompareInvoiceWithPo(po_lookup, invoices[i]))
    /\ UNCHANGED << invoice_file, po_file, matcher, invoices, purchase_orders,
                    po_lookup, results, prev_results, summary_text,
                    load_outcome, filtered,
                    ingest_vars >>

\* lines 382-389
GetMismatchesForVendor ==
    /\ matcher = "constructed"
    /\ \E vendor_name \in VendorArgs :
          filtered' = [kind |-> "called", call |-> "get_mismatches_for_vendor",
                       vendor_name |-> vendor_name,
                       outcome |-> GetMismatchesForVendorOutcome(vendor_name)]
    /\ UNCHANGED << invoice_file, po_file, matcher, invoices, purchase_orders,
                    po_lookup, results, prev_results, summary_text, arg_invoice,
                    comparison, load_outcome,
                    ingest_vars >>

\* lines 391-398
GetMismatchesAboveAmount ==
    /\ matcher = "constructed"
    /\ \E amount \in AmountArgs :
          filtered' = [kind |-> "called", call |-> "get_mismatches_above_amount",
                       amount |-> amount,
                       outcome |-> GetMismatchesAboveAmountOutcome(amount)]
    /\ UNCHANGED << invoice_file, po_file, matcher, invoices, purchase_orders,
                    po_lookup, results, prev_results, summary_text, arg_invoice,
                    comparison, load_outcome,
                    ingest_vars >>

NextQueries ==
    \/ FindAllMismatches
    \/ GetMismatchSummaryText
    \/ CompareLoadedInvoice
    \/ GetMismatchesForVendor
    \/ GetMismatchesAboveAmount

SpecQueries == InitQueries /\ [][NextQueries]_vars

-----------------------------------------------------------------------------
(* PDF auto-ingestion: process_pdf and the constructor *)

\* most documents held in the three collections together
MaxDocuments == 2

\* names of PDF files dropped into the watch directory
FileNames == {"a.pdf", "b.pdf"}

\* line 216: what the classifier answers
DocTypes == {"purchase_order", "invoice", "grn"}

\* lines 264-269: the collection a document of a type goes to
CollectionOf(doc_type) ==
    IF doc_type = "purchase_order" THEN "purchase_orders"
    ELSE IF doc_type = "invoice" THEN "invoices" ELSE "grns"

NumberField(doc_type) ==
    IF doc_type = "purchase_order" THEN "po_number"
    ELSE IF doc_type = "invoice" THEN "invoice_number" ELSE "grn_number"

EmptyDict == [x \in {} |-> None]

\* a Python value is truthy: an extractor's None and its empty dict are not
Truthy(data) == data # None /\ DOMAIN data[1] # {}

\* lines 233-237: what the LLM extractor returns for a document of the type
\* (None also when the extractor is disabled or fails)
LlmData(doc_type) ==
    {None, Some([x \in {NumberField(doc_type)} |-> "N1"])}

\* line 245: what the regex extractor returns
RegexData(doc_type) ==
    {None, Some(EmptyDict),
     Some([x \in {NumberField(doc_type)} |-> "N1"]),
     Some([x \in {"vendor_name"} |-> "Acme"])}

\* the places where a call can fail once the data is extracted: the stat of
\* the PDF (line 254), the write of one of the four files of _save_documents
\* (lines 172-190) and the write of the log (line 66)
Failures ==
    {"none", "stat", "purchase_orders.json", "invoices.json", "grns.json",
     "all_documents.json", "ingestion_log.json"}

\* what the surroundings of one process_pdf call decide: the extracted text,
\* the classifier's answer, the two extractors' answers and the failing step.
\* The regex extractor is only asked when the LLM data is not truthy, and a
\* step after the extraction only runs when there is data.
Environments ==
    {e \in [text : {"ok"}, doc_type : DocTypes,
            llm_data : UNION {LlmData(dt) : dt \in DocTypes},
            regex_data : UNION {RegexData(dt) : dt \in DocTypes},
            failure : Failures] :
        /\ e.llm_data \in LlmData(e.doc_type)
        /\ e.regex_data \in RegexData(e.doc_type)
        /\ Truthy(e.llm_data) => e.regex_data = None
        /\ (~Truthy(e.llm_data) /\ ~Truthy(e.regex_data)) => e.failure = "none"}
    \cup
    {[text |-> tx, doc_type |-> "unknown", llm_data |-> None,
      regex_data |-> None, failure |-> "none"] :
        tx \in {"raises", "short", "ok"}}

\* lines 258 and 262: the first of po_number, invoice_number and grn_number
DocId(doc_data) ==
    IF "po_number" \in DOMAIN doc_data THEN Some(doc_data.po_number)
    ELSE IF "invoice_number" \in DOMAIN doc_data THEN Some(doc_data.invoice_number)
    ELSE IF "grn_number" \in DOMAIN doc_data THEN Some(doc_data.grn_number)
    ELSE None

\* lines 252-259 (file_size and processed_at are left out)
Metadata(doc_data, filename, extraction_method) ==
    [filename |-> filename,
     layout_style |-> "unknown",
     extraction_method |-> extraction_method,
     extraction_confidence |-> IF DocId(doc_data) # None THEN "high" ELSE "low"]

\* lines 169-190: the four files are written in turn; a failing write leaves
\* its file and the files after it as they were and raises
SaveDocuments(files, docs, failure) ==
    LET order == << "purchase_orders.json", "invoices.json", "grns.json",
                    "all_documents.json" >>
        Position(name) == CHOOSE k \in 1..4 : order[k] = name
        failing == IF failure \in {order[k] : k \in 1..4}
                   THEN Position(failure) ELSE 5
    IN [raised |-> failing <= 4,
        files |->
          [purchase_orders |-> IF failing > 1 THEN Some(docs.purchase_orders)
                               ELSE files.purchase_orders,
           invoices |-> IF failing > 2 THEN Some(docs.invoices)
                        ELSE files.invoices,
           grns |-> IF failing > 3 THEN Some(docs.grns) ELSE files.grns,
           all_documents |->
               IF failing > 4
               THEN Some(docs.purchase_orders \o docs.invoices \o docs.grns)
               ELSE files.all_documents]]

\* lines 69-71
IsProcessed(log, filename) == filename \in DOMAIN log.processed_files

\* lines 73-81: the log in memory after mark_processed (line 82 saves it)
MarkProcessed(log, filename, doc_type, doc_id) ==
    LET processed_files ==
            With(log.processed_files, filename,
                 [doc_type |-> doc_type, doc_id |-> doc_id])
    IN [processed_files |-> processed_files,
        total_processed |-> Cardinality(DOMAIN processed_files)]

\* lines 192-291: process_pdf on the state st of the object and of the disk;
\* result is None or the returned dict
ProcessPdfOn(st, filename, env) ==
    LET unchanged == [state |-> st, result |-> None] IN
    IF IsProcessed(st.log_data, filename) THEN unchanged
    ELSE IF env.text # "ok" THEN unchanged
    ELSE IF env.doc_type = "unknown" THEN unchanged
    ELSE
    LET from_llm == Truthy(env.llm_data)
        extracted == IF from_llm THEN env.llm_data ELSE env.regex_data
    IN
    IF ~Truthy(extracted) THEN unchanged
    ELSE IF env.failure = "stat" THEN unchanged
    ELSE
    LET doc_data == With(extracted[1], "metadata",
                         Metadata(extracted[1], filename,
                                  IF from_llm THEN "llm" ELSE "regex"))
        doc_id == DocId(doc_data)
        appended == [st.documents EXCEPT
                        ![CollectionOf(env.doc_type)] = Append(@, doc_data)]
        saving == SaveDocuments(st.saved_documents, appended, env.failure)
        marked == MarkProcessed(st.log_data, filename, env.doc_type, doc_id)
    IN
    IF saving.raised
    THEN [state |-> [st EXCEPT !.documents = appended,
                               !.saved_documents = saving.files],
          result |-> None]
    ELSE IF env.failure = "ingestion_log.json"
    THEN [state |-> [st EXCEPT !.documents = appended,
                               !.saved_documents = saving.files,
                               !.log_data = marked],
          result |-> None]
    ELSE [state |-> [documents |-> appended,
                     saved_documents |-> saving.files,
                     log_data |-> marked,
                     saved_log |-> Some(marked)],
          result |-> Some([filename |-> filename, doc_type |-> env.doc_type,
                           doc_id |-> doc_id, doc_data |-> doc_data])]

\* the documents of the three collections
TotalDocuments(docs) ==
    Len(docs.purchase_orders) + Len(docs.invoices) + Len(docs.grns)

\* no call and no file of the reconciliation is involved
MatcherIdle ==
    /\ invoice_file = None
    /\ po_file = None
    /\ matcher = "none"
    /\ invoices = << >>
    /\ purchase_orders = << >>
    /\ po_lookup = << >>
    /\ results = NotCalled
    /\ prev_results = NotCalled
    /\ summary_text = NotCalled
    /\ arg_invoice = NoInvoice
    /\ comparison = NotCalled
    /\ load_outcome = NotCalled
    /\ filtered = NotCalled

InitIngest == MatcherIdle /\ IngestIdle

\* lines 192-291: one process_pdf call on a file of the watch directory
ProcessPdf ==
    /\ TotalDocuments(documents) < MaxDocuments
    /\ \E filename \in FileNames, env \in Environments :
          LET out == ProcessPdfOn([documents |-> documents,
                                   log_data |-> log_data,
                                   saved_documents |-> saved_documents,
                                   saved_log |-> saved_log], filename, env)
          IN /\ documents' = out.state.documents
             /\ log_data' = out.state.log_data
             /\ saved_documents' = out.state.saved_documents
             /\ saved_log' = out.state.saved_log
             /\ ingest_call' = [filename |-> filename, result |-> out.result]
             /\ succeeded' = IF out.result # None
                             THEN succeeded \cup {filename} ELSE succeeded
    /\ UNCHANGED matcher_vars

\* lines 119-131 with 49-62 and 141-167: the process is started again; the
\* constructor reads the log and the collections back from the files
Restart ==
    /\ documents' =
          [purchase_orders |-> IF saved_documents.purchase_orders = None
                               THEN << >> ELSE saved_documents.purchase_orders[1],
           invoices |-> IF saved_documents.invoices = None
                        THEN << >> ELSE saved_documents.invoices[1],
           grns |-> IF saved_documents.grns = None
                    THEN << >> ELSE saved_documents.grns[1]]
    /\ log_data' = IF saved_log = None THEN EmptyLog ELSE saved_log[1]
    /\ ingest_call' = NotCalled
    /\ UNCHANGED << saved_documents, saved_log, succeeded >>
    /\ UNCHANGED matcher_vars

NextIngest ==
    \/ ProcessPdf
    \/ Restart

SpecIngest == InitIngest /\ [][NextIngest]_vars

-----------------------------------------------------------------------------
(* Properties of find_all_mismatches (specification Spec) *)

\* how many entries of a result list carry the invoice number n
Occurrences(list, n) ==
    Cardinality({k \in DOMAIN list : list[k].invoice_number = n})

\* the reference of an invoice resolves to a loaded PO
Resolves(lookup, invoice) ==
    /\ ~NoReference(Get(invoice, "po_reference"))
    /\ invoice.po_reference \in DOMAIN lookup

\* C1: in every report find_all_mismatches returns, each loaded invoice is in
\* exactly one of matched, mismatched and errors, and the three lengths add up
\* to total_invoices, the number of loaded invoices.
C1_Partition ==
    results.kind = "returned" =>
        LET r == results.value IN
        /\ r.total_invoices = Len(invoices)
        /\ Len(r.matched) + Len(r.mismatched) + Len(r.errors) = r.total_invoices
        /\ \A i \in DOMAIN invoices :
              Occurrences(r.matched, invoices[i].invoice_number)
              + Occurrences(r.mismatched, invoices[i].invoice_number)
              + Occurrences(r.errors, invoices[i].invoice_number) = 1

\* C1 witness: a report over two invoices, one mismatched and one in errors
C1_Witness ==
    /\ results.kind = "returned"
    /\ Len(invoices) = 2
    /\ Len(results.value.mismatched) = 1
    /\ Len(results.value.errors) = 1

RECURSIVE SumOver(_, _, _)
\* the float sum 0.0 + f[1] + f[2] + ... over the indices of S, in index order
SumOver(f, S, i) ==
    IF i = 0 THEN FloatZero
    ELSE IF i \in S THEN FloatAdd(SumOver(f, S, i - 1), f[i])
    ELSE SumOver(f, S, i - 1)

\* C9: in every returned report total_amount_variance is the sum, over the
\* invoices in mismatched, of abs(invoice total_amount - PO total_amount);
\* invoices in matched and in errors add nothing.
C9_VarianceOverMismatched ==
    results.kind = "returned" =>
        LET r == results.value
            classified == {i \in DOMAIN invoices :
                             Occurrences(r.mismatched, invoices[i].invoice_number) = 1}
            gap == [i \in classified |->
                      FloatAbsDiff(invoices[i].total_amount,
                                   po_lookup[invoices[i].po_reference].total_amount)]
        IN r.summary.total_amount_variance = SumOver(gap, classified, Len(invoices))

\* C9 witness: a report with a non-zero variance although an invoice in
\* errors carries a total of its own
C9_Witness ==
    /\ results.kind = "returned"
    /\ results.value.summary.total_amount_variance.thousandths > 0
    /\ \E i \in DOMAIN invoices :
          /\ Occurrences(results.value.errors, invoices[i].invoice_number) = 1
          /\ Get(invoices[i], "total_amount") = Some(9999)

\* C10: get_mismatch_summary_text on a matcher without invoices returns a
\* text showing 0% matched and 0% mismatched.
C10_EmptyCollectionShowsZeroPercent ==
    (summary_text.kind # "not_called" /\ invoices = << >>) =>
        /\ summary_text.kind = "returned"
        /\ summary_text.value.matched_percent = 0
        /\ summary_text.value.mismatched_percent = 0

\* C11: find_all_mismatches never raises when every failure is a resolution
\* failure: the call returns a report, and every invoice whose po_reference
\* resolves, absent header amounts included, is in matched or in mismatched.
C11_ResolvableNeverRaises ==
    results.kind # "not_called" =>
        /\ results.kind = "returned"
        /\ \A i \in DOMAIN invoices :
              Resolves(po_lookup, invoices[i]) =>
                 Occurrences(results.value.matched \o results.value.mismatched,
                             invoices[i].invoice_number) = 1

\* C12: with at least one invoice loaded, get_mismatch_summary_text returns
\* a text that has a detail block for every invoice of status MISMATCH and an
\* error line for every invoice of status ERROR, whatever values the reported
\* header issues hold.
C12_TextAlwaysCompletes ==
    (summary_text.kind # "not_called" /\ Len(invoices) >= 1) =>
        /\ summary_text.kind = "returned"
        /\ \A i \in DOMAIN invoices :
              LET c == CompareInvoiceWithPo(po_lookup, invoices[i]) IN
              /\ c.status = "MISMATCH" =>
                    Occurrences(summary_text.value.mismatched, c.invoice_number) = 1
              /\ c.status = "ERROR" =>
                    Occurrences(summary_text.value.errors, c.invoice_number) = 1

\* s holds some of the elements of t, in the order they have in t
IsSubsequence(s, t) ==
    \E f \in [DOMAIN s -> DOMAIN t] :
        /\ \A j, k \in DOMAIN s : j < k => f[j] < f[k]
        /\ \A k \in DOMAIN s : s[k] = t[f[k]]

-----------------------------------------------------------------------------
(* Properties of compare_invoice_with_po (specification SpecCompare) *)

\* the PO the argument of the call resolves to
ArgPO == po_lookup[arg_invoice.po_reference]

ArgResolves == Resolves(po_lookup, arg_invoice)

\* C3: the result has status ERROR exactly when the po_reference is None or
\* empty or no key of po_lookup; otherwise the status is MATCH or MISMATCH.
C3_ErrorOnlyWhenUnresolved ==
    comparison.kind = "returned" =>
        /\ comparison.value.status = "ERROR" <=> ~ArgResolves
        /\ ArgResolves => comparison.value.status \in {"MATCH", "MISMATCH"}

\* C3 witness: a call whose reference resolves to a PO without line items
C3_Witness ==
    /\ comparison.kind = "returned"
    /\ ArgResolves
    /\ "line_items" \notin DOMAIN ArgPO
    /\ comparison.value.status = "MISMATCH"

HeaderFields ==
    {"vendor_name", "vendor_id", "currency", "subtotal", "tax", "total_amount"}

\* the sequences s and t hold the same elements, in any order
IsPermutation(s, t) ==
    /\ Len(s) = Len(t)
    /\ \E p \in Permutations(DOMAIN s) : \A i \in DOMAIN s : s[i] = t[p[i]]

\* the invoice and the PO agree on every header field and list the same items
Identical(invoice, po) ==
    /\ \A f \in HeaderFields : Get(invoice, f) = Get(po, f)
    /\ IsPermutation(GetOr(invoice, "line_items", << >>),
                     GetOr(po, "line_items", << >>))

\* C4: an invoice that resolves to a PO identical to it in every header field
\* and in its line items, listed in any order, has status MATCH and no issue.
C4_IdenticalIsMatch ==
    (comparison.kind = "returned" /\ ArgResolves /\ Identical(arg_invoice, ArgPO)) =>
        /\ comparison.value.status = "MATCH"
        /\ comparison.value.total_issues = 0

\* the item codes of a list of line items are pairwise distinct
UniqueCodes(items) ==
    \A i, j \in DOMAIN items : items[i].item_code = items[j].item_code => i = j

\* C4 holds of the documents whose item codes are unique (it fails only when
\* an item code occurs twice in the PO with different values)
C4_IdenticalUniqueIsMatch ==
    (/\ comparison.kind = "returned" /\ ArgResolves /\ Identical(arg_invoice, ArgPO)
     /\ UniqueCodes(GetOr(ArgPO, "line_items", << >>))) =>
        /\ comparison.value.status = "MATCH"
        /\ comparison.value.total_issues = 0

\* C5: for a resolving invoice the status is MATCH exactly when header_issues
\* is empty and has_line_item_issues is false, and MISMATCH exactly when
\* header_issues or the line-item mismatches hold at least one entry.
C5_StatusFromComparators ==
    (comparison.kind = "returned" /\ ArgResolves) =>
        LET c == comparison.value IN
        /\ c.status = "MATCH" <=>
              (c.header_issues = << >>
               /\ ~c.line_item_comparison.has_line_item_issues)
        /\ c.status = "MISMATCH" <=>
              (Len(c.header_issues) >= 1
               \/ Len(c.line_item_comparison.mismatches) >= 1)
        /\ c.header_issues = HeaderIssues(arg_invoice, ArgPO)
        /\ c.line_item_comparison =
              CompareLineItems(GetOr(arg_invoice, "line_items", << >>),
                               GetOr(ArgPO, "line_items", << >>))

\* C5 witness: a MISMATCH that rests on the line items alone
C5_Witness ==
    /\ comparison.kind = "returned"
    /\ ArgResolves
    /\ comparison.value.status = "MISMATCH"
    /\ comparison.value.header_issues = << >>
    /\ Len(comparison.value.line_item_comparison.mismatches) >= 1

\* C6: for status MATCH or MISMATCH, total_issues is the number of header
\* issues plus the number of line-item mismatch entries; an ITEM_MISMATCH
\* entry counts once however many fields differ.
C6_TotalIssues ==
    (comparison.kind = "returned" /\ comparison.value.status # "ERROR") =>
        comparison.value.total_issues =
            Len(comparison.value.header_issues)
            + Len(comparison.value.line_item_comparison.mismatches)

\* C6 witness: a header issue together with an ITEM_MISMATCH on two fields
C6_Witness ==
    /\ comparison.kind = "returned"
    /\ comparison.value.status = "MISMATCH"
    /\ Len(comparison.value.header_issues) >= 1
    /\ \E k \in DOMAIN comparison.value.line_item_comparison.mismatches :
          LET m == comparison.value.line_item_comparison.mismatches[k] IN
          m.type = "ITEM_MISMATCH" /\ Len(m.issues) >= 2

\* the header issues of a result on the given field
IssuesOn(c, field) ==
    {k \in DOMAIN c.header_issues : c.header_issues[k].field = field}

\* an ITEM_MISMATCH entry for the code holds an issue on the field with
\* these two values
HasItemIssue(c, code, field, invoice_value, po_value) ==
    \E k \in DOMAIN c.line_item_comparison.mismatches :
        LET m == c.line_item_comparison.mismatches[k] IN
        /\ m.type = "ITEM_MISMATCH"
        /\ m.item_code = code
        /\ \E n \in DOMAIN m.issues :
              /\ m.issues[n].field = field
              /\ m.issues[n].invoice_value = invoice_value
              /\ m.issues[n].po_value = po_value

\* C8: a difference of exactly 0.01 (10 thousandths) raises no issue and a
\* difference of 0.011 (11 thousandths) raises one, for subtotal, tax and
\* total_amount of the header and for unit_price and total of a line item
\* whose code the PO has.
C8_StrictTolerance ==
    (comparison.kind = "returned" /\ ArgResolves) =>
        LET c == comparison.value
            inv_items == GetOr(arg_invoice, "line_items", << >>)
            po_by_code == ItemsLookup(GetOr(ArgPO, "line_items", << >>))
        IN
        /\ \A f \in {"subtotal", "tax", "total_amount"} :
              LET d == Abs(GetOr(arg_invoice, f, 0) - GetOr(ArgPO, f, 0)) IN
              /\ d = 10 => IssuesOn(c, f) = {}
              /\ d = 11 => Cardinality(IssuesOn(c, f)) = 1
        /\ \A i \in DOMAIN inv_items :
              inv_items[i].item_code \in DOMAIN po_by_code =>
                 \A f \in {"unit_price", "total"} :
                    LET a == inv_items[i][f]
                        b == po_by_code[inv_items[i].item_code][f]
                    IN /\ Abs(a - b) = 10 =>
                             ~HasItemIssue(c, inv_items[i].item_code, f, a, b)
                       /\ Abs(a - b) = 11 =>
                             HasItemIssue(c, inv_items[i].item_code, f, a, b)

-----------------------------------------------------------------------------
(* Properties of load_data (specification SpecReload) *)

\* C13: load_data raises exactly when invoices.json or purchase_orders.json
\* is missing, whichever of the two; the constructor then raises too and
\* yields no matcher, so a constructed matcher holds both collections as
\* loaded from the two files.
C13_LoadFailsWhenEitherMissing ==
    /\ [][(Construct \/ LoadData) =>
             (load_outcome'.kind = "raised"
                 <=> (invoice_file = None \/ po_file = None))]_vars
    /\ [][Construct =>
             /\ matcher' = "failed" <=> load_outcome'.kind = "raised"
             /\ matcher' = "constructed" =>
                   /\ invoices' = invoice_file[1]
                   /\ purchase_orders' = po_file[1]
                   /\ po_lookup' = BuildLookup(po_file[1])]_vars

\* C13 witness: the constructor has raised with invoices.json present and
\* purchase_orders.json missing
C13_Witness ==
    /\ matcher = "failed"
    /\ load_outcome.kind = "raised"
    /\ invoice_file # None
    /\ invoice_file # Some(<< >>)
    /\ po_file = None

\* C14: a load_data call that raises on an existing matcher leaves invoices,
\* purchase_orders and po_lookup as they were before the call.
C14_FailedLoadKeepsState ==
    [][(LoadData /\ load_outcome'.kind = "raised") =>
          UNCHANGED << invoices, purchase_orders, po_lookup >>]_vars

-----------------------------------------------------------------------------
(* Properties of the queries (specification SpecQueries) *)

\* C15: find_all_mismatches, compare_invoice_with_po (and compare_line_items
\* inside it), get_mismatch_summary_text and the two filter helpers leave
\* invoices, purchase_orders and po_lookup, and so every record in them, as
\* they were before the call: whatever queries have been called, the matcher
\* holds what load_data read from the two files.
C15_QueriesLeaveDataAlone ==
    /\ invoices = invoice_file[1]
    /\ purchase_orders = po_file[1]
    /\ po_lookup = BuildLookup(po_file[1])

\* C15 witness: every query has been called on a matcher with invoices
C15_Witness ==
    /\ Len(invoices) >= 2
    /\ results.kind = "returned"
    /\ summary_text.kind = "returned"
    /\ comparison.kind = "returned"
    /\ filtered.kind = "called"

\* the report of find_all_mismatches on the loaded invoices taken in the
\* order p
ReportInOrder(p) ==
    Aggregate(po_lookup, [i \in DOMAIN invoices |-> invoices[p[i]]],
              Returned(FreshResults), 1)

\* C16: for every order of the invoice collection find_all_mismatches gives
\* every invoice the same result in the same list and the same summary:
\* total_matched, total_mismatched, total_errors, total_amount_variance and
\* the severity counters.
C16_OrderIndependent ==
    results.kind # "not_called" =>
        \A p \in Permutations(DOMAIN invoices) :
            LET out == ReportInOrder(p) IN
            /\ out.kind = results.kind
            /\ results.kind = "returned" =>
                  /\ IsPermutation(out.value.matched, results.value.matched)
                  /\ IsPermutation(out.value.mismatched, results.value.mismatched)
                  /\ IsPermutation(out.value.errors, results.value.errors)
                  /\ out.value.summary = results.value.summary

\* C16 holds of everything but the rounding of total_amount_variance: the
\* lists, the counters and the variance as a decimal do not depend on the order
C16_OrderIndependentUpToRounding ==
    results.kind # "not_called" =>
        \A p \in Permutations(DOMAIN invoices) :
            LET out == ReportInOrder(p) IN
            /\ out.kind = results.kind
            /\ results.kind = "returned" =>
                  /\ IsPermutation(out.value.matched, results.value.matched)
                  /\ IsPermutation(out.value.mismatched, results.value.mismatched)
                  /\ IsPermutation(out.value.errors, results.value.errors)
                  /\ [out.value.summary EXCEPT !.total_amount_variance = @.thousandths]
                     = [results.value.summary EXCEPT
                           !.total_amount_variance = @.thousandths]

\* the results of the loaded invoices of status MISMATCH, in collection order
MismatchedInOrder ==
    LET c == [i \in DOMAIN invoices |-> CompareInvoiceWithPo(po_lookup, invoices[i])]
        IsMismatch(x) == x.status = "MISMATCH"
    IN  SelectSeq(c, IsMismatch)

\* what the claim says the latest filter call returns
ExpectedFiltered ==
    LET ForVendor(m) ==
            /\ m.vendor_name # None
            /\ LowerCase[m.vendor_name[1]] = LowerCase[filtered.vendor_name]
        Above(m) ==
            /\ m.invoice_total # None
            /\ m.po_total # None
            /\ FloatGreater(FloatAbsDiff(m.invoice_total[1], m.po_total[1]),
                            filtered.amount)
    IN  IF filtered.call = "get_mismatches_for_vendor"
        THEN SelectSeq(MismatchedInOrder, ForVendor)
        ELSE SelectSeq(MismatchedInOrder, Above)

\* C17: get_mismatches_for_vendor returns exactly the mismatched results
\* whose vendor_name equals the given name ignoring case, and
\* get_mismatches_above_amount exactly those with abs(invoice_total -
\* po_total) above the threshold, in the order of the mismatched list and
\* without any matched or errored invoice.
C17_FiltersSelectMismatched ==
    filtered.kind = "called" =>
        /\ filtered.outcome.kind = "returned"
        /\ filtered.outcome.value = ExpectedFiltered

\* C17 holds of the calls that return: a filter raises when
\* find_all_mismatches does, or when a mismatched invoice has no vendor_name
C17_FiltersSelectWhenReturned ==
    (filtered.kind = "called" /\ filtered.outcome.kind = "returned") =>
        filtered.outcome.value = ExpectedFiltered

-----------------------------------------------------------------------------
(* Properties of the header comparison (specification SpecCompare) *)

\* the issue the rule of a string field gives: exact inequality
ExpectedStringIssue(invoice, po, field) ==
    IF Get(invoice, field) = Get(po, field) THEN << >>
    ELSE << [field |-> field, invoice_value |-> Get(invoice, field),
             po_value |-> Get(po, field), severity |-> "HIGH"] >>

\* the issue the rule of an amount field gives: abs(diff) > 0.01, with
\* diff = invoice value - PO value and a missing value taken as 0
ExpectedAmountIssue(invoice, po, field, severity, fires) ==
    LET diff == GetOr(invoice, field, 0) - GetOr(po, field, 0) IN
    IF ~fires THEN << >>
    ELSE << [field |-> field, invoice_value |-> Get(invoice, field),
             po_value |-> Get(po, field), difference |-> diff,
             severity |-> severity] >>

\* abs(diff) > 0.01 on the amounts as decimals
RuleFires(invoice, po, field) ==
    Abs(GetOr(invoice, field, 0) - GetOr(po, field, 0)) > 10

\* abs(diff) > 0.01 as Python evaluates it on the doubles of the amounts
RuleFiresOnDoubles(invoice, po, field) ==
    LET a == GetOr(invoice, field, 0)
        b == GetOr(po, field, 0)
    IN  \/ Abs(a - b) > 10
        \/ Abs(a - b) = 10 /\ <<a, b>> \in RoundedAboveTolerance

\* C19: for a resolved pair header_issues is the list of the issues of
\* vendor_name, vendor_id, currency (values unequal; HIGH), subtotal (HIGH),
\* tax (MEDIUM) and total_amount (HIGH) (abs(diff) > 0.01), in this order,
\* each present exactly when the rule of its own field fires, the amount
\* issues with difference = invoice value - PO value.
C19_HeaderRules ==
    (comparison.kind = "returned" /\ ArgResolves) =>
        comparison.value.header_issues =
            ExpectedStringIssue(arg_invoice, ArgPO, "vendor_name")
            \o ExpectedStringIssue(arg_invoice, ArgPO, "vendor_id")
            \o ExpectedStringIssue(arg_invoice, ArgPO, "currency")
            \o ExpectedAmountIssue(arg_invoice, ArgPO, "subtotal", "HIGH",
                                   RuleFires(arg_invoice, ArgPO, "subtotal"))
            \o ExpectedAmountIssue(arg_invoice, ArgPO, "tax", "MEDIUM",
                                   RuleFires(arg_invoice, ArgPO, "tax"))
            \o ExpectedAmountIssue(arg_invoice, ArgPO, "total_amount", "HIGH",
                                   RuleFires(arg_invoice, ArgPO, "total_amount"))

\* C19 holds when abs(diff) > 0.01 is read as Python evaluates it: the six
\* fields are checked independently and in order; the code departs from the
\* decimal rule only for amounts exactly 0.01 apart
C19_HeaderRulesOnDoubles ==
    (comparison.kind = "returned" /\ ArgResolves) =>
        comparison.value.header_issues =
            ExpectedStringIssue(arg_invoice, ArgPO, "vendor_name")
            \o ExpectedStringIssue(arg_invoice, ArgPO, "vendor_id")
            \o ExpectedStringIssue(arg_invoice, ArgPO, "currency")
            \o ExpectedAmountIssue(arg_invoice, ArgPO, "subtotal", "HIGH",
                                   RuleFiresOnDoubles(arg_invoice, ArgPO, "subtotal"))
            \o ExpectedAmountIssue(arg_invoice, ArgPO, "tax", "MEDIUM",
                                   RuleFiresOnDoubles(arg_invoice, ArgPO, "tax"))
            \o ExpectedAmountIssue(arg_invoice, ArgPO, "total_amount", "HIGH",
                                   RuleFiresOnDoubles(arg_invoice, ArgPO, "total_amount"))

\* C20: an amount field missing from the invoice or from the PO counts as 0:
\* against an amount within 0.01 of zero it raises no issue, against an
\* amount v with abs(v) > 0.01 it raises exactly one issue on that field,
\* whose difference is invoice value - PO value with the missing side as 0.
C20_MissingAmountIsZero ==
    (comparison.kind = "returned" /\ ArgResolves) =>
        \A f \in {"subtotal", "tax", "total_amount"} :
            (f \notin DOMAIN arg_invoice \/ f \notin DOMAIN ArgPO) =>
                LET c == comparison.value
                    a == GetOr(arg_invoice, f, 0)
                    b == GetOr(ArgPO, f, 0)
                IN  /\ Abs(a - b) <= 10 => IssuesOn(c, f) = {}
                    /\ Abs(a - b) > 10 =>
                          /\ Cardinality(IssuesOn(c, f)) = 1
                          /\ \A k \in IssuesOn(c, f) :
                                /\ c.header_issues[k].difference = a - b
                                /\ c.header_issues[k].invoice_value = Get(arg_invoice, f)
                                /\ c.header_issues[k].po_value = Get(ArgPO, f)

\* C20 witness: an invoice without tax and subtotal against a PO with tax
\* 0.011 and subtotal 0.01: one issue on tax, with difference -0.011, and
\* none on subtotal
C20_Witness ==
    /\ comparison.kind = "returned"
    /\ ArgResolves
    /\ "tax" \notin DOMAIN arg_invoice
    /\ "subtotal" \notin DOMAIN arg_invoice
    /\ Get(ArgPO, "tax") = Some(11)
    /\ Get(ArgPO, "subtotal") = Some(10)
    /\ IssuesOn(comparison.value, "subtotal") = {}
    /\ \E k \in IssuesOn(comparison.value, "tax") :
          comparison.value.header_issues[k].difference = -11

-----------------------------------------------------------------------------
(* Properties of compare_line_items (specification SpecCompare) *)

\* the line items compare_invoice_with_po hands to compare_line_items
ArgInvoiceItems == GetOr(arg_invoice, "line_items", << >>)

ArgPoItems == GetOr(ArgPO, "line_items", << >>)

CodesOf(items) == {items[i].item_code : i \in DOMAIN items}

LineComparison == comparison.value.line_item_comparison

\* the positions of the mismatches of one type
EntriesOfType(ms, type) == {k \in DOMAIN ms : ms[k].type = type}

\* C21: every invoice item whose code no PO item has is reported by exactly
\* one ITEM_NOT_IN_PO entry with its quantity and description, every PO item
\* whose code no invoice item has by exactly one ITEM_NOT_IN_INVOICE entry
\* with its quantity, and a code present on both sides by neither.
C21_OneEntryPerUnpairedItem ==
    (comparison.kind = "returned" /\ ArgResolves) =>
        LET ms == LineComparison.mismatches
            inv == ArgInvoiceItems
            po == ArgPoItems
            not_in_po == EntriesOfType(ms, "ITEM_NOT_IN_PO")
            not_in_invoice == EntriesOfType(ms, "ITEM_NOT_IN_INVOICE")
            inv_only == {i \in DOMAIN inv : inv[i].item_code \notin CodesOf(po)}
            po_only == {j \in DOMAIN po : po[j].item_code \notin CodesOf(inv)}
        IN
        /\ Cardinality(not_in_po) = Cardinality(inv_only)
        /\ Cardinality(not_in_invoice) = Cardinality(po_only)
        /\ \A i \in inv_only :
              Cardinality({k \in not_in_po :
                              /\ ms[k].item_code = inv[i].item_code
                              /\ ms[k].invoice_quantity = inv[i].quantity
                              /\ ms[k].description = inv[i].description})
              = Cardinality({n \in inv_only :
                              /\ inv[n].item_code = inv[i].item_code
                              /\ inv[n].quantity = inv[i].quantity
                              /\ inv[n].description = inv[i].description})
        /\ \A j \in po_only :
              Cardinality({k \in not_in_invoice :
                              /\ ms[k].item_code = po[j].item_code
                              /\ ms[k].po_quantity = po[j].quantity})
              = Cardinality({n \in po_only :
                              /\ po[n].item_code = po[j].item_code
                              /\ po[n].quantity = po[j].quantity})
        /\ \A k \in not_in_po \cup not_in_invoice :
              ms[k].item_code \notin CodesOf(inv) \cap CodesOf(po)

\* an invoice item without a PO item next to two PO items of one code that
\* the invoice does not have
C21_Witness ==
    /\ comparison.kind = "returned" /\ ArgResolves
    /\ Cardinality(EntriesOfType(LineComparison.mismatches, "ITEM_NOT_IN_PO")) = 1
    /\ Cardinality(EntriesOfType(LineComparison.mismatches, "ITEM_NOT_IN_INVOICE")) = 2
    /\ Len(ArgPoItems) = 2
    /\ ArgPoItems[1].item_code = ArgPoItems[2].item_code

\* the per-field issues of an invoice item against the PO item of its code,
\* by the rules as stated: quantity by inequality, unit_price and total by a
\* difference above the tolerance
ExpectedItemIssues(inv_item, po_item) ==
    {FieldIssue(f, inv_item, po_item) :
        f \in {f \in {"quantity", "unit_price", "total"} :
                  IF f = "quantity" THEN inv_item[f] # po_item[f]
                  ELSE Abs(inv_item[f] - po_item[f]) > LineTolerance}}

\* the same with the comparison as it is evaluated on doubles
ExpectedItemIssuesOnDoubles(inv_item, po_item) ==
    {FieldIssue(f, inv_item, po_item) :
        f \in {f \in {"quantity", "unit_price", "total"} :
                  IF f = "quantity" THEN inv_item[f] # po_item[f]
                  ELSE ExceedsTolerance(inv_item[f], po_item[f], LineTolerance)}}

\* the issues of a mismatch entry, as a set
IssueSet(m) == {m.issues[n] : n \in DOMAIN m.issues}

\* the ITEM_MISMATCH entries are those of the invoice items with a PO item of
\* their code and at least one expected issue, each holding every expected
\* issue once
ItemMismatchesAre(Expected(_, _)) ==
    LET ms == LineComparison.mismatches
        inv == ArgInvoiceItems
        po_by_code == ItemsLookup(ArgPoItems)
        item_mismatch == EntriesOfType(ms, "ITEM_MISMATCH")
        paired == {i \in DOMAIN inv : inv[i].item_code \in DOMAIN po_by_code}
        differing == {i \in paired :
                        Expected(inv[i], po_by_code[inv[i].item_code]) # {}}
    IN
    /\ Cardinality(item_mismatch) = Cardinality(differing)
    /\ \A k \in item_mismatch :
          Len(ms[k].issues) = Cardinality(IssueSet(ms[k]))
    /\ \A i \in differing :
          LET expected == Expected(inv[i], po_by_code[inv[i].item_code]) IN
          Cardinality({k \in item_mismatch :
                          /\ ms[k].item_code = inv[i].item_code
                          /\ IssueSet(ms[k]) = expected})
          = Cardinality({n \in differing :
                          /\ inv[n].item_code = inv[i].item_code
                          /\ Expected(inv[n], po_by_code[inv[n].item_code])
                                = expected})

\* C22: an invoice item whose code the PO has gets one issue for each of
\* quantity (unequal), unit_price and total (more than 0.01 apart) that
\* differs, with the invoice value, the PO value and the signed difference,
\* and one ITEM_MISMATCH entry exactly when at least one of them differs.
C22_AllDifferingFields ==
    (comparison.kind = "returned" /\ ArgResolves) =>
        ItemMismatchesAre(ExpectedItemIssues)

\* C22 holds with the comparison as it is evaluated on doubles (it fails only
\* for amounts exactly 0.01 apart)
C22_AllDifferingFieldsOnDoubles ==
    (comparison.kind = "returned" /\ ArgResolves) =>
        ItemMismatchesAre(ExpectedItemIssuesOnDoubles)

\* the strictly increasing maps from the positions K to the positions I
IncreasingMaps(K, I) ==
    {g \in [K -> I] : \A k1, k2 \in K : k1 < k2 => g[k1] < g[k2]}

\* C23: the mismatches list first the entries of invoice items (ITEM_NOT_IN_PO
\* and ITEM_MISMATCH) in the order of the invoice items, then every
\* ITEM_NOT_IN_INVOICE entry in the order of the PO items.
C23_InvoiceEntriesThenPoEntries ==
    (comparison.kind = "returned" /\ ArgResolves) =>
        LET ms == LineComparison.mismatches
            inv == ArgInvoiceItems
            po == ArgPoItems
            from_po == EntriesOfType(ms, "ITEM_NOT_IN_INVOICE")
            from_invoice == DOMAIN ms \ from_po
        IN
        /\ \A k \in from_invoice : ms[k].type \in {"ITEM_NOT_IN_PO", "ITEM_MISMATCH"}
        /\ \A k1 \in from_invoice, k2 \in from_po : k1 < k2
        /\ \E g \in IncreasingMaps(from_invoice, DOMAIN inv) :
              \A k \in from_invoice :
                 /\ ms[k].item_code = inv[g[k]].item_code
                 /\ ms[k].description = inv[g[k]].description
                 /\ ms[k].type = "ITEM_NOT_IN_PO" =>
                        /\ ms[k].invoice_quantity = inv[g[k]].quantity
                        /\ inv[g[k]].item_code \notin CodesOf(po)
                 /\ ms[k].type = "ITEM_MISMATCH" =>
                        /\ inv[g[k]].item_code \in CodesOf(po)
                        /\ \A n \in DOMAIN ms[k].issues :
                              ms[k].issues[n].invoice_value
                                 = inv[g[k]][ms[k].issues[n].field]
        /\ \E g \in IncreasingMaps(from_po, DOMAIN po) :
              \A k \in from_po :
                 /\ ms[k].item_code = po[g[k]].item_code
                 /\ ms[k].po_quantity = po[g[k]].quantity

\* two invoice items without a PO item and two PO items without an invoice
\* item, told apart by their quantities
C23_Witness ==
    /\ comparison.kind = "returned" /\ ArgResolves
    /\ Len(LineComparison.mismatches) = 4
    /\ LineComparison.mismatches[1].type = "ITEM_NOT_IN_PO"
    /\ LineComparison.mismatches[2].type = "ITEM_NOT_IN_PO"
    /\ LineComparison.mismatches[1].invoice_quantity
          # LineComparison.mismatches[2].invoice_quantity
    /\ LineComparison.mismatches[3].po_quantity
          # LineComparison.mismatches[4].po_quantity

\* matched_items counts the invoice items with a PO item of their code and no
\* expected issue, and the two totals are the lengths of the lists
CountsAre(Expected(_, _)) ==
    LET inv == ArgInvoiceItems
        po_by_code == ItemsLookup(ArgPoItems)
    IN
    /\ LineComparison.matched_items =
          Cardinality({i \in DOMAIN inv :
                          /\ inv[i].item_code \in DOMAIN po_by_code
                          /\ Expected(inv[i], po_by_code[inv[i].item_code]) = {}})
    /\ LineComparison.total_items_in_invoice = Len(inv)
    /\ LineComparison.total_items_in_po = Len(ArgPoItems)

\* C24: matched_items is the number of invoice items whose code the PO has
\* and whose quantity, unit_price and total agree with the PO item (equal
\* quantity, amounts at most 0.01 apart); items only on one side and differing
\* items do not count; total_items_in_invoice and total_items_in_po are the
\* lengths of the two lists.
C24_MatchedItemsCount ==
    (comparison.kind = "returned" /\ ArgResolves) => CountsAre(ExpectedItemIssues)

\* C24 holds with the comparison as it is evaluated on doubles (it fails only
\* for amounts exactly 0.01 apart)
C24_MatchedItemsCountOnDoubles ==
    (comparison.kind = "returned" /\ ArgResolves) =>
        CountsAre(ExpectedItemIssuesOnDoubles)

\* C28: a result with status MATCH has no header issue and no line-item
\* mismatch, counts every invoice item as matched, and has every item code of
\* the PO among the invoice's item codes; with item codes unique within each
\* document the two documents then list the same number of items.
C28_MatchIsClean ==
    (comparison.kind = "returned" /\ comparison.value.status = "MATCH") =>
        /\ ArgResolves
        /\ comparison.value.header_issues = << >>
        /\ LineComparison.mismatches = << >>
        /\ LineComparison.matched_items = LineComparison.total_items_in_invoice
        /\ LineComparison.total_items_in_invoice = Len(ArgInvoiceItems)
        /\ CodesOf(ArgPoItems) \subseteq CodesOf(ArgInvoiceItems)
        /\ (UniqueCodes(ArgInvoiceItems) /\ UniqueCodes(ArgPoItems)) =>
              LineComparison.total_items_in_invoice = LineComparison.total_items_in_po

\* a MATCH of two documents with two items each
C28_Witness ==
    /\ comparison.kind = "returned" /\ comparison.value.status = "MATCH"
    /\ LineComparison.total_items_in_invoice = 2
    /\ UniqueCodes(ArgInvoiceItems) /\ UniqueCodes(ArgPoItems)

-----------------------------------------------------------------------------
(* Properties of the index and of the counters of a report (specification Spec) *)

\* the last purchase order of the collection with the number n
LastWithNumber(pos, n) ==
    pos[CHOOSE i \in DOMAIN pos :
           /\ pos[i].po_number = n
           /\ \A j \in DOMAIN pos : pos[j].po_number = n => j <= i]

\* the loaded invoice with the given number
InvoiceNumbered(n) ==
    invoices[CHOOSE i \in DOMAIN invoices : invoices[i].invoice_number = n]

\* C25: the keys of po_lookup are exactly the po_number values of the loaded
\* purchase orders, a number shared by several purchase orders maps to the
\* last of them in collection order, and an invoice referencing the number is
\* compared against that last purchase order.
C25_LastWriteWins ==
    matcher = "constructed" =>
        /\ DOMAIN po_lookup =
              {purchase_orders[i].po_number : i \in DOMAIN purchase_orders}
        /\ \A n \in DOMAIN po_lookup :
              po_lookup[n] = LastWithNumber(purchase_orders, n)
        /\ results.kind = "returned" =>
              \A c \in {results.value.matched[k] : k \in DOMAIN results.value.matched}
                       \cup {results.value.mismatched[k] :
                                k \in DOMAIN results.value.mismatched} :
                 LET po == LastWithNumber(purchase_orders, c.po_reference) IN
                 /\ c.po_total = Get(po, "total_amount")
                 /\ c.po_date = Get(po, "po_date")
                 /\ c.header_issues =
                       HeaderIssues(InvoiceNumbered(c.invoice_number), po)

\* two purchase orders numbered PO1 with different totals, and an invoice
\* compared against the second
C25_Witness ==
    /\ matcher = "constructed"
    /\ Len(purchase_orders) = 2
    /\ purchase_orders[1].po_number = purchase_orders[2].po_number
    /\ purchase_orders[1].total_amount # purchase_orders[2].total_amount
    /\ results.kind = "returned"
    /\ \E k \in DOMAIN results.value.mismatched :
          /\ results.value.mismatched[k].po_reference = purchase_orders[2].po_number
          /\ results.value.mismatched[k].po_total = Some(purchase_orders[2].total_amount)
          /\ results.value.mismatched[k].invoice_total
                = Some(purchase_orders[1].total_amount)

\* the header issues of the given severities in the mismatched list, each
\* named by the position of its result and its position among the issues
IssuesOfSeverity(mismatched, severities) ==
    {<<k, n>> \in (DOMAIN mismatched) \X (1..6) :
        /\ n \in DOMAIN mismatched[k].header_issues
        /\ mismatched[k].header_issues[n].severity \in severities}

\* C26: high_severity_issues is the number of HIGH header issues and
\* medium_severity_issues the number of MEDIUM header issues over the
\* mismatched list; line-item mismatches and MATCH and ERROR results count in
\* neither, so the two add up to the number of header issues of the
\* mismatched list.
C26_SeverityCounters ==
    results.kind = "returned" =>
        LET r == results.value IN
        /\ r.summary.high_severity_issues =
              Cardinality(IssuesOfSeverity(r.mismatched, {"HIGH"}))
        /\ r.summary.medium_severity_issues =
              Cardinality(IssuesOfSeverity(r.mismatched, {"MEDIUM"}))
        /\ \A k \in DOMAIN r.mismatched : Len(r.mismatched[k].header_issues) <= 6
        /\ r.summary.high_severity_issues + r.summary.medium_severity_issues =
              Cardinality({<<k, n>> \in (DOMAIN r.mismatched) \X (1..6) :
                              n \in DOMAIN r.mismatched[k].header_issues})

\* a report with a HIGH and a MEDIUM issue, a result whose only issue is a
\* line-item mismatch, and an ERROR result beside the mismatched ones
C26_Witness ==
    /\ results.kind = "returned"
    /\ results.value.summary.high_severity_issues > 0
    /\ results.value.summary.medium_severity_issues > 0
    /\ \E k \in DOMAIN results.value.mismatched :
          results.value.mismatched[k].line_item_comparison.mismatches # << >>

\* C27: in a report total_matched, total_mismatched and total_errors are the
\* lengths of matched, mismatched and errors and add up to total_invoices, and
\* the results of each list have the status of the list.
C27_CountersAreLengths ==
    results.kind = "returned" =>
        LET r == results.value IN
        /\ r.summary.total_matched = Len(r.matched)
        /\ r.summary.total_mismatched = Len(r.mismatched)
        /\ r.summary.total_errors = Len(r.errors)
        /\ r.summary.total_matched + r.summary.total_mismatched
              + r.summary.total_errors = r.total_invoices
        /\ \A k \in DOMAIN r.matched : r.matched[k].status = "MATCH"
        /\ \A k \in DOMAIN r.mismatched : r.mismatched[k].status = "MISMATCH"
        /\ \A k \in DOMAIN r.errors : r.errors[k].status = "ERROR"

\* a report of two invoices with a matched and a mismatched one
C27_Witness ==
    /\ results.kind = "returned"
    /\ results.value.total_invoices = 2
    /\ Len(results.value.matched) = 1
    /\ Len(results.value.mismatched) = 1

-----------------------------------------------------------------------------
(* Properties of the PDF auto-ingestion (specification SpecIngest) *)

\* the documents of the collections that came from the file of the name, each
\* named by its collection and its position
DocumentsFrom(name) ==
    {<<c, k>> \in {"purchase_orders", "invoices", "grns"} \X (1..MaxDocuments) :
        /\ k \in DOMAIN documents[c]
        /\ documents[c][k].metadata.filename = name}

\* a process_pdf call for a name that an earlier call returned a result for
\* returns None and leaves the collections and the log alone
SucceededNameIsSkipped ==
    [][(ProcessPdf /\ ingest_call'.filename \in succeeded) =>
          /\ ingest_call'.result = None
          /\ UNCHANGED << documents, log_data >>]_vars

\* total_processed counts the names of processed_files
TotalProcessedIsCount ==
    log_data.total_processed = Cardinality(DOMAIN log_data.processed_files)

\* C29: once process_pdf has returned a result for a file name, every later
\* call for the name returns None and leaves the collections and the log
\* unchanged; no file name has more than one document in the collections; and
\* total_processed is the number of distinct processed names.
C29_IngestedAtMostOnce ==
    /\ SucceededNameIsSkipped
    /\ [](\A name \in FileNames : Cardinality(DocumentsFrom(name)) <= 1)
    /\ []TotalProcessedIsCount

\* the parts of C29 that hold: a name that succeeded is skipped from then on
\* and total_processed is the number of processed names (only the bound of
\* one document per name fails, after a call that failed while saving)
C29_SucceededNameIsSkippedAndCounted ==
    /\ SucceededNameIsSkipped
    /\ []TotalProcessedIsCount

\* C30: a process_pdf call that returns None leaves the collections in memory
\* and the ingestion log as they were before the call.
C30_NoneLeavesStateAlone ==
    [][(ProcessPdf /\ ingest_call'.result = None) =>
          UNCHANGED << documents, log_data >>]_vars

\* C30 holds of the calls that return None before the document is appended:
\* a name already processed, too little text, an unknown type and no data
C30_EarlyNoneLeavesStateAlone ==
    [][(/\ ProcessPdf
        /\ ingest_call'.result = None
        /\ TotalDocuments(documents') = TotalDocuments(documents)) =>
          UNCHANGED << documents, log_data >>]_vars

====
